---- MODULE Spec2Model ----
(***************************************************************************)
(* AwsCredentialsManager (src/aws_tui.py): the credentials file, its .bak *)
(* sibling and the manager's long-lived configparser.ConfigParser.        *)
(*                                                                         *)
(* A file is a sequence of lines; a line is a section header, a           *)
(* "key = value" line or the blank line ConfigParser.write puts after a   *)
(* section.  A value is a sequence of tokens: literal text, the character *)
(* "%", or the text "(aws_access_key_id)s", which after a "%" is a        *)
(* BasicInterpolation reference.  Files that hold a [DEFAULT] header,     *)
(* duplicate sections or lines outside the grammar are not among the      *)
(* inputs: nothing the manager writes and none of the external edits      *)
(* modelled here produces one.                                            *)
(***************************************************************************)
EXTENDS Integers, Sequences, FiniteSets, TLC

VARIABLES
    file,      \* the credentials file: [dir, exists, lines]
    bak,       \* the backup file path.with_suffix(".bak"): [dir, exists, lines]
    config,    \* self.config of the live manager: sequence of [name, opts]
    last,      \* the last call made: operation, arguments, outcome, pre-state
    ops_left,    \* steps the behaviour may still take
    faults_left, \* file-system faults the environment may still raise
    procs,     \* manager instances of other processes, each inside one call
    hist       \* the loads and the completed writes of those, in order

vars == <<file, bak, config, last, ops_left, faults_left, procs, hist>>

----------------------------------------------------------------------------
(* Bounds *)

MaxOps == 3        \* steps per behaviour when the file system never fails
MaxOpsIO == 2      \* steps per behaviour when it may fail
MaxFaults == 1     \* file-system faults per behaviour
MaxCut == 1        \* lines a failing write or copy may leave behind
MaxOpsNew == 2     \* steps per behaviour after a construction on any path

(* configparser's recursion limit for value substitution *)
MAX_INTERPOLATION_DEPTH == 10

----------------------------------------------------------------------------
(* Vocabulary *)

DEFAULTSECT == "DEFAULT"          \* configparser.DEFAULTSECT
DefaultName == "default"          \* the alias section of the manager

KeyId     == "aws_access_key_id"
KeySecret == "aws_secret_access_key"
KeyToken  == "aws_session_token"
KeyRegion == "region"             \* a key only an external edit adds

PCT == "%"
REF == "(aws_access_key_id)s"

ExtKeys == {KeyToken, KeyRegion}  \* the keys an external edit removes

ProfileNames == {"a", "b"}
ProcIds == {1, 2}                 \* the processes running a manager of their own
Names == ProfileNames \cup {DefaultName, DEFAULTSECT}

V_x    == <<"x">>
V_y    == <<"y">>
V_pct  == <<PCT>>                    \* "%"    : rejected by before_set
V_pct4 == <<PCT, PCT, PCT, PCT>>     \* "%%%%" : reads back as "%%"
V_ref  == <<PCT, REF>>               \* "%(aws_access_key_id)s"
Empty  == <<>>                       \* ""

AccessKeys == {V_x, V_ref}
SecretKeys == {V_y, V_pct4}
Tokens     == {Empty, V_x, V_pct}

----------------------------------------------------------------------------
(* Lines of a file *)

SectLine(n)   == [t |-> "sect",  k |-> n,  v |-> <<>>]
OptLine(k, v) == [t |-> "opt",   k |-> k,  v |-> v]
BlankLine     == [t |-> "blank", k |-> "", v |-> <<>>]

\* what is left of a line another write covered in part, n bytes of it
Frag(n)       == [t |-> "frag",  k |-> "", v |-> [i \in 1..n |-> "?"]]
\* n bytes past the end of the file that a later write skipped over
Hole(n)       == [t |-> "hole",  k |-> "", v |-> [i \in 1..n |-> "?"]]

\* a path: does its parent directory exist, does the file, and its lines
NoDir         == [dir |-> FALSE, exists |-> FALSE, lines |-> <<>>]
NoFile        == [dir |-> TRUE,  exists |-> FALSE, lines |-> <<>>]
FileOf(ls)    == [dir |-> TRUE,  exists |-> TRUE,  lines |-> ls]

----------------------------------------------------------------------------
(* The parser state: an ordered list of sections, each an ordered mapping *)

Opt(k, v) == [k |-> k, v |-> v]

SectionNames(cfg) == [i \in DOMAIN cfg |-> cfg[i].name]

HasSection(cfg, n) == \E i \in DOMAIN cfg : cfg[i].name = n

\* RawConfigParser.__contains__
Contains(cfg, n) == n = DEFAULTSECT \/ HasSection(cfg, n)

SectionIndex(cfg, n) == CHOOSE i \in DOMAIN cfg : cfg[i].name = n

\* the options of section n; those of DEFAULT are the (empty) defaults
OptsOf(cfg, n) ==
    IF HasSection(cfg, n) THEN cfg[SectionIndex(cfg, n)].opts ELSE <<>>

HasOpt(opts, k) == \E i \in DOMAIN opts : opts[i].k = k

OptValue(opts, k) == opts[CHOOSE i \in DOMAIN opts : opts[i].k = k].v

\* dict assignment: an existing key keeps its place, a new key goes last
PutOpt(opts, k, v) ==
    IF HasOpt(opts, k)
    THEN [i \in DOMAIN opts |-> IF opts[i].k = k THEN Opt(k, v) ELSE opts[i]]
    ELSE Append(opts, Opt(k, v))

PutOption(cfg, n, k, v) ==
    [i \in DOMAIN cfg |->
        IF cfg[i].name = n
        THEN [name |-> n, opts |-> PutOpt(cfg[i].opts, k, v)]
        ELSE cfg[i]]

add_section(cfg, n) == Append(cfg, [name |-> n, opts |-> <<>>])

remove_section(cfg, n) == SelectSeq(cfg, LAMBDA s : s.name # n)

----------------------------------------------------------------------------
(* ConfigParser.write and ConfigParser.read *)

OptLines(opts) == [i \in DOMAIN opts |-> OptLine(opts[i].k, opts[i].v)]

\* RawConfigParser._write_section: header, one line per option, a blank line
SectionLines(s) == <<SectLine(s.name)>> \o OptLines(s.opts) \o <<BlankLine>>

\* RawConfigParser.write: the sections in the parser's order
RECURSIVE WriteLines(_)
WriteLines(cfg) ==
    IF cfg = <<>> THEN <<>>
    ELSE SectionLines(Head(cfg)) \o WriteLines(Tail(cfg))

\* RawConfigParser._read: the lines are merged INTO cfg.  A header of a
\* section cfg already holds selects it, a new header appends a section;
\* an option line assigns into the current section.
RECURSIVE ReadLines(_, _, _)
ReadLines(cfg, lines, cursect) ==
    IF lines = <<>> THEN cfg
    ELSE LET l == Head(lines) IN
         IF l.t = "sect"
         THEN ReadLines(IF HasSection(cfg, l.k) THEN cfg ELSE add_section(cfg, l.k),
                        Tail(lines), l.k)
         ELSE IF l.t = "opt"
         THEN ReadLines(PutOption(cfg, cursect, l.k, l.v), Tail(lines), cursect)
         ELSE ReadLines(cfg, Tail(lines), cursect)

\* load(): self.config.read(self.path); read() skips a file it cannot open
load(cfg, f) == IF f.exists THEN ReadLines(cfg, f.lines, "") ELSE cfg

\* what a parser created now would read from f
Parsed(f) == load(<<>>, f)

----------------------------------------------------------------------------
(* BasicInterpolation *)

Ok(v) == [ok |-> TRUE,  val |-> v]
Err   == [ok |-> FALSE, val |-> <<>>]

HasPct(v) == \E i \in DOMAIN v : v[i] = PCT

FirstPct(v) == CHOOSE i \in DOMAIN v : v[i] = PCT /\ \A j \in 1..(i - 1) : v[j] # PCT

\* tmp_value = value.replace('%%', '')
RECURSIVE DropPctPct(_)
DropPctPct(v) ==
    IF Len(v) < 2 THEN v
    ELSE IF v[1] = PCT /\ v[2] = PCT THEN DropPctPct(SubSeq(v, 3, Len(v)))
    ELSE <<v[1]>> \o DropPctPct(Tail(v))

\* tmp_value = self._KEYCRE.sub('', tmp_value)
RECURSIVE DropRefs(_)
DropRefs(v) ==
    IF Len(v) < 2 THEN v
    ELSE IF v[1] = PCT /\ v[2] = REF THEN DropRefs(SubSeq(v, 3, Len(v)))
    ELSE <<v[1]>> \o DropRefs(Tail(v))

\* BasicInterpolation.before_set accepts the value
before_set_ok(v) == ~HasPct(DropRefs(DropPctPct(v)))

\* BasicInterpolation._interpolate_some over the options `map` of a section
RECURSIVE interpolate_some(_, _, _)
interpolate_some(rest, map, depth) ==
    IF depth > MAX_INTERPOLATION_DEPTH THEN Err
    ELSE IF ~HasPct(rest) THEN Ok(rest)
    ELSE LET p    == FirstPct(rest)
             pre  == SubSeq(rest, 1, p - 1)
             more == SubSeq(rest, p + 2, Len(rest))
         IN  IF Len(rest) = p THEN Err
             ELSE IF rest[p + 1] = PCT
             THEN LET r == interpolate_some(more, map, depth)
                  IN  IF r.ok THEN Ok(pre \o <<PCT>> \o r.val) ELSE Err
             ELSE IF rest[p + 1] = REF
             THEN IF ~HasOpt(map, KeyId) THEN Err
                  ELSE LET v == OptValue(map, KeyId)
                           s == IF HasPct(v) THEN interpolate_some(v, map, depth + 1)
                                ELSE Ok(v)
                           r == interpolate_some(more, map, depth)
                       IN  IF s.ok /\ r.ok THEN Ok(pre \o s.val \o r.val) ELSE Err
             ELSE Err

\* BasicInterpolation.before_get
before_get(v, map) == interpolate_some(v, map, 1)

\* SectionProxy.items() / dict(SectionProxy): every value goes through get()
RECURSIVE ItemsFrom(_, _)
ItemsFrom(opts, map) ==
    IF opts = <<>> THEN Ok(<<>>)
    ELSE LET g == before_get(Head(opts).v, map)
             r == ItemsFrom(Tail(opts), map)
         IN  IF g.ok /\ r.ok THEN Ok(<<Opt(Head(opts).k, g.val)>> \o r.val) ELSE Err

Items(cfg, n) == ItemsFrom(OptsOf(cfg, n), OptsOf(cfg, n))

----------------------------------------------------------------------------
(* Files: shutil.copy and open(path, "w") + write *)

\* a copy that is skipped when a backup exists already
copy_once(f) == IF bak.exists THEN bak ELSE FileOf(f.lines)

\* a copy that stops after the first line of the source
copy_first_line(f) == IF f.lines = <<>> THEN FileOf(<<>>) ELSE FileOf(<<Head(f.lines)>>)

\* shutil.copy(self.path, self.path.with_suffix(".bak")): a full snapshot
copy(f) == FileOf(f.lines)

\* the bytes of a value, of a line as ConfigParser.write prints it
\* ("[name]", "key = value", each with its newline), of a sequence of lines
RECURSIVE ValLen(_)
ValLen(v) == IF v = <<>> THEN 0 ELSE Len(Head(v)) + ValLen(Tail(v))

LineLen(l) ==
    IF l.t = "sect" THEN Len(l.k) + 3
    ELSE IF l.t = "opt" THEN Len(l.k) + 3 + ValLen(l.v) + 1
    ELSE IF l.t = "blank" THEN 1
    ELSE Len(l.v)

RECURSIVE Bytes(_)
Bytes(ls) == IF ls = <<>> THEN 0 ELSE LineLen(Head(ls)) + Bytes(Tail(ls))

\* write(2) of the lines chunk at byte offset B of a file holding old: the
\* bytes under the chunk are replaced, the bytes before and after it stay,
\* and nothing is truncated
pwrite(old, B, chunk) ==
    LET E     == B + Bytes(chunk)
        nb    == Cardinality({i \in DOMAIN old : Bytes(SubSeq(old, 1, i)) <= B})
        head  == SubSeq(old, 1, nb)
        gap   == B - Bytes(head)
        front == IF gap = 0 THEN <<>>
                 ELSE IF nb < Len(old) THEN <<Frag(gap)>> ELSE <<Hole(gap)>>
        na    == Cardinality({i \in DOMAIN old : Bytes(SubSeq(old, 1, i - 1)) >= E})
        tail  == SubSeq(old, Len(old) - na + 1, Len(old))
        left  == Bytes(old) - Bytes(tail) - E
        rear  == IF left > 0 THEN <<Frag(left)>> ELSE <<>>
    IN  head \o front \o chunk \o rear \o tail

\* the first n lines: what an interrupted write leaves in a truncated file
Partial(lines, n) == FileOf(SubSeq(lines, 1, n))

\* faults of the file system during one call
Faults == {"none", "copy", "open", "write"}

Cuts == 0..MaxCut

----------------------------------------------------------------------------
(* Outcome of one call *)

Outcome(cfg, f, b, res, at) == [config |-> cfg, file |-> f, bak |-> b, res |-> res, at |-> at]

\* the file opened with "a" instead of "w": the store is appended to the file
write_back_append(cfg, b, fault, cut) ==
    LET out == WriteLines(cfg) IN
    IF fault = "open" THEN Outcome(cfg, file, b, "OSError", "open")
    ELSE IF fault = "write"
    THEN Outcome(cfg, FileOf(file.lines \o SubSeq(out, 1, cut)), b, "OSError", "write")
    ELSE Outcome(cfg, FileOf(file.lines \o out), b, "ok", "done")

\* the with open(self.path, "w") block, after the backup b was taken
write_back(cfg, b, fault, cut) ==
    LET out == WriteLines(cfg) IN
    IF fault = "open" THEN Outcome(cfg, file, b, "OSError", "open")
    ELSE IF fault = "write" THEN Outcome(cfg, Partial(out, cut), b, "OSError", "write")
    ELSE Outcome(cfg, FileOf(out), b, "ok", "done")

\* the faults a call can meet, given what it would copy and write
FaultPossible(fault, cut, out) ==
    \/ fault \in {"none", "copy", "open"} /\ cut = 0
    \/ fault = "write" /\ cut < Len(out)

\* the session token assigned without the test `if session_token:`
set_credentials_token_always(cfg, name, access_key, secret_key, session_token) ==
    LET c2 == PutOption(cfg, name, KeyId, access_key)
        c3 == PutOption(c2, name, KeySecret, secret_key)
    IN  IF ~before_set_ok(access_key) THEN [ok |-> FALSE, cfg |-> cfg]
        ELSE IF ~before_set_ok(secret_key) THEN [ok |-> FALSE, cfg |-> c2]
        ELSE IF ~before_set_ok(session_token) THEN [ok |-> FALSE, cfg |-> c3]
        ELSE [ok |-> TRUE, cfg |-> PutOption(c3, name, KeyToken, session_token)]

\* the three assignments self.config[name][...] = ... of add_profile
set_credentials(cfg, name, access_key, secret_key, session_token) ==
    LET c2 == PutOption(cfg, name, KeyId, access_key)
        c3 == PutOption(c2, name, KeySecret, secret_key)
    IN  IF ~before_set_ok(access_key) THEN [ok |-> FALSE, cfg |-> cfg]
        ELSE IF ~before_set_ok(secret_key) THEN [ok |-> FALSE, cfg |-> c2]
        ELSE IF session_token = Empty THEN [ok |-> TRUE, cfg |-> c3]
        ELSE IF ~before_set_ok(session_token) THEN [ok |-> FALSE, cfg |-> c3]
        ELSE [ok |-> TRUE, cfg |-> PutOption(c3, name, KeyToken, session_token)]

add_profile(name, access_key, secret_key, session_token, fault, cut) ==
    LET c0 == load(config, file)
        c1 == IF HasSection(c0, name) THEN c0 ELSE add_section(c0, name)
        s  == set_credentials(c1, name, access_key, secret_key, session_token)
    IN  IF ~file.exists \/ fault = "copy"
        THEN Outcome(c0, file, bak, "OSError", "copy")
        ELSE IF ~HasSection(c0, name) /\ name = DEFAULTSECT
        THEN Outcome(c0, file, copy(file), "ValueError", "add_section")
        ELSE IF ~s.ok
        THEN Outcome(s.cfg, file, copy(file), "ValueError", "set")
        ELSE write_back(s.cfg, copy(file), fault, cut)

\* for key, value in self.config[source_profile].items():
\*     self.config["default"][key] = value
RECURSIVE copy_keys(_, _, _)
copy_keys(cfg, opts, map) ==
    IF opts = <<>> THEN [res |-> "ok", cfg |-> cfg]
    ELSE LET g == before_get(Head(opts).v, map) IN
         IF ~g.ok THEN [res |-> "InterpolationError", cfg |-> cfg]
         ELSE IF ~before_set_ok(g.val) THEN [res |-> "ValueError", cfg |-> cfg]
         ELSE copy_keys(PutOption(cfg, DefaultName, Head(opts).k, g.val), Tail(opts), map)

\* remove_section("default"); add_section("default")
clear_default(cfg) ==
    add_section(remove_section(
        IF HasSection(cfg, DefaultName) THEN cfg ELSE add_section(cfg, DefaultName),
        DefaultName), DefaultName)

set_default(source_profile, fault, cut) ==
    LET c0 == load(config, file)
        c2 == clear_default(c0)
        k  == copy_keys(c2, OptsOf(c2, source_profile), OptsOf(c2, source_profile))
    IN  IF ~Contains(c0, source_profile)
        THEN Outcome(c0, file, bak, "noop", "return")
        ELSE IF ~file.exists \/ fault = "copy"
        THEN Outcome(c0, file, bak, "OSError", "copy")
        ELSE IF k.res # "ok"
        THEN Outcome(k.cfg, file, copy(file), k.res, "set")
        ELSE write_back(k.cfg, copy(file), fault, cut)

\* [sec for sec in self.config.sections() if sec != "default"]
get_profiles(cfg) == SelectSeq(SectionNames(cfg), LAMBDA n : n # DefaultName)

\* dict(self.config[profile]) if profile in self.config else {}
get_profile_details(cfg, profile) ==
    IF Contains(cfg, profile) THEN Items(cfg, profile) ELSE Ok(<<>>)

----------------------------------------------------------------------------
(* The calls *)

Call(op, name, ak, sk, tok, res, at, ret) ==
    [op |-> op, name |-> name, ak |-> ak, sk |-> sk, tok |-> tok,
     res |-> res, at |-> at, ret |-> ret, file0 |-> file, bak0 |-> bak,
     \* the call repeats the completed call before it, argument for argument
     again |-> /\ last.op = op /\ last.res = "ok"
               /\ last.name = name /\ last.ak = ak /\ last.sk = sk /\ last.tok = tok]

Constructed(f) ==
    [op |-> "init", name |-> "", ak |-> <<>>, sk |-> <<>>, tok |-> <<>>,
     res |-> "ok", at |-> "done", ret |-> <<>>, file0 |-> f, bak0 |-> NoFile,
     again |-> FALSE]

\* a credentials file the manager may be constructed on: empty, or holding
\* profile "a" (with a session token and a region) activated as default
ActivatedA ==
    LET o == <<Opt(KeyId, V_x), Opt(KeySecret, V_y), Opt(KeyToken, V_x), Opt(KeyRegion, V_x)>>
    IN  <<[name |-> "a", opts |-> o], [name |-> DefaultName, opts |-> o]>>

InitFiles == {FileOf(<<>>), FileOf(WriteLines(ActivatedA))}

\* a manager instance of another process: where it is in its call (pc), the
\* call and its arguments, its parser (cfg), the lines it is copying or
\* writing (buf) and how many of them went out (pos), the file it loaded
ProcAt(pc, op, name, tok, cfg, buf, pos, f0, res) ==
    [pc |-> pc, op |-> op, name |-> name, tok |-> tok, cfg |-> cfg,
     buf |-> buf, pos |-> pos, file0 |-> f0, res |-> res]

OffProc   == ProcAt("off",   "", "", <<>>, <<>>, <<>>, 0, NoFile, "")
ReadyProc == ProcAt("ready", "", "", <<>>, <<>>, <<>>, 0, NoFile, "")

Init ==
    /\ file \in InitFiles
    /\ bak = NoFile
    /\ config = <<>>
    /\ last = Constructed(file)
    /\ ops_left = MaxOps
    /\ faults_left = 0
    /\ procs = [p \in ProcIds |-> OffProc]
    /\ hist = <<>>

\* the parent directory made, and the file left as it is
ensure_params_mkdir_only(f) ==
    IF ~f.dir THEN NoFile
    ELSE IF ~f.exists THEN FileOf(<<>>) ELSE f

\* mkdir(parents=True) if the parent is missing, touch() if the file is
ensure_params(f) ==
    LET made == IF ~f.dir THEN NoFile ELSE f
    IN  IF ~made.exists THEN FileOf(<<>>) ELSE made

\* one more step, with or without a fault
Step(fault) ==
    /\ ops_left > 0
    /\ ops_left' = ops_left - 1
    /\ fault # "none" => faults_left > 0
    /\ faults_left' = IF fault = "none" THEN faults_left ELSE faults_left - 1
    /\ UNCHANGED <<procs, hist>>

\* AwsCredentialsManager(path): a new parser, and ensure_params()
NewManager ==
    /\ Step("none")
    /\ config' = <<>>
    /\ file' = ensure_params(file)
    /\ last' = Call("init", "", <<>>, <<>>, <<>>, "ok", "done", <<>>)
    /\ UNCHANGED bak

GetProfiles ==
    /\ Step("none")
    /\ config' = load(config, file)
    /\ last' = Call("get_profiles", "", <<>>, <<>>, <<>>, "ok", "done", get_profiles(config'))
    /\ UNCHANGED <<file, bak>>

GetProfileDetails ==
    \E profile \in Names :
        LET d == get_profile_details(load(config, file), profile) IN
        /\ Step("none")
        /\ config' = load(config, file)
        /\ last' = Call("get_profile_details", profile, <<>>, <<>>, <<>>,
                        IF d.ok THEN "ok" ELSE "InterpolationError", "done", d.val)
            /\ UNCHANGED <<file, bak>>

AddProfile ==
    \E name \in Names, ak \in AccessKeys, sk \in SecretKeys, tok \in Tokens,
       fault \in Faults, cut \in Cuts :
        LET o == add_profile(name, ak, sk, tok, fault, cut) IN
        /\ Step(fault)
        /\ FaultPossible(fault, cut, WriteLines(o.config))
        /\ config' = o.config
        /\ file' = o.file
        /\ bak' = o.bak
        /\ last' = Call("add_profile", name, ak, sk, tok, o.res, o.at, <<>>)
    
SetDefault ==
    \E source_profile \in Names, fault \in Faults, cut \in Cuts :
        LET o == set_default(source_profile, fault, cut) IN
        /\ Step(fault)
        /\ FaultPossible(fault, cut, WriteLines(o.config))
        /\ config' = o.config
        /\ file' = o.file
        /\ bak' = o.bak
        /\ last' = Call("set_default", source_profile, <<>>, <<>>, <<>>, o.res, o.at, <<>>)
    
\* an edit of the credentials file by another program: a section goes
ExtRemoveSection ==
    \E n \in ProfileNames \cup {DefaultName} :
        /\ Step("none")
        /\ HasSection(Parsed(file), n)
        /\ file' = FileOf(WriteLines(remove_section(Parsed(file), n)))
        /\ last' = Call("external", n, <<>>, <<>>, <<>>, "ok", "done", <<>>)
        /\ UNCHANGED <<bak, config>>

\* an edit of the credentials file by another program: a key of a section goes
ExtRemoveKey ==
    \E n \in ProfileNames \cup {DefaultName}, k \in ExtKeys :
        /\ Step("none")
        /\ HasOpt(OptsOf(Parsed(file), n), k)
        /\ file' = FileOf(WriteLines(
                [i \in DOMAIN Parsed(file) |->
                    IF Parsed(file)[i].name = n
                    THEN [name |-> n,
                          opts |-> SelectSeq(Parsed(file)[i].opts, LAMBDA o : o.k # k)]
                    ELSE Parsed(file)[i]]))
        /\ last' = Call("external", n, <<>>, <<>>, <<>>, "ok", "done", <<>>)
        /\ UNCHANGED <<bak, config>>

Next ==
    \/ ExtRemoveSection
    \/ ExtRemoveKey
    \/ NewManager
    \/ GetProfiles
    \/ GetProfileDetails
    \/ AddProfile
    \/ SetDefault

\* the manager on a file system that never fails
Spec == Init /\ [][Next]_vars

\* the manager on a file system that may fail a copy, an open or a write
InitIO ==
    /\ file \in InitFiles
    /\ bak = NoFile
    /\ config = <<>>
    /\ last = Constructed(file)
    /\ ops_left = MaxOpsIO
    /\ faults_left = MaxFaults
    /\ procs = [p \in ProcIds |-> OffProc]
    /\ hist = <<>>

SpecIO == InitIO /\ [][Next]_vars

\* one manager, constructed on an empty credentials file, and its four calls
InitEmpty ==
    /\ file = FileOf(<<>>)
    /\ bak = NoFile
    /\ config = <<>>
    /\ last = Constructed(file)
    /\ ops_left = MaxOps
    /\ faults_left = 0
    /\ procs = [p \in ProcIds |-> OffProc]
    /\ hist = <<>>

NextCalls ==
    \/ GetProfiles
    \/ GetProfileDetails
    \/ AddProfile
    \/ SetDefault

SpecCalls == InitEmpty /\ [][NextCalls]_vars

\* the path before a manager is constructed on it: with or without its
\* directory, with or without its file
PathsAtStart == {NoDir, NoFile} \cup InitFiles

\* the manager constructed on such a path
InitNew ==
    \E f0 \in PathsAtStart :
        /\ file = ensure_params(f0)
        /\ bak = NoFile
        /\ config = <<>>
        /\ last = Constructed(f0)
        /\ ops_left = MaxOpsNew
        /\ faults_left = 0
        /\ procs = [p \in ProcIds |-> OffProc]
        /\ hist = <<>>

SpecNew == InitNew /\ [][Next]_vars

----------------------------------------------------------------------------
(* A call step by step.  Each process constructs a manager of its own on   *)
(* the shared path and makes one call: load, the backup copy (the .bak     *)
(* opened and truncated, then written), the assignments in memory, the     *)
(* file opened with "w" (truncated), then written.  Each process writes    *)
(* through a descriptor of its own, at its own offset, and may be killed   *)
(* between any two steps.                                                  *)

\* the variables of the manager of the other specifications
manager == <<config, last, ops_left, faults_left>>

\* where a write of the lines buf, pos of them out, may stop next: after
\* the whole of it, or after its first lines
ChunkEnds(buf, pos) ==
    {Len(buf)} \cup {m \in (pos + 1)..Len(buf) : m <= MaxCut}

\* AwsCredentialsManager(); add_profile(name, "x", "y", tok) up to self.load()
BeginAddProfile ==
    \E p \in ProcIds, name \in ProfileNames, tok \in Tokens :
        /\ procs[p].pc = "ready"
        /\ procs' = [procs EXCEPT ![p] =
              ProcAt("loaded", "add_profile", name, tok,
                     load(<<>>, ensure_params(file)), <<>>, 0, file, "")]
        /\ hist' = Append(hist, <<p, "load">>)
        /\ file' = ensure_params(file)
        /\ UNCHANGED <<bak, manager>>

\* AwsCredentialsManager(); set_default(source_profile) up to the test of
\* source_profile, which returns when the store does not hold it
BeginSetDefault ==
    \E p \in ProcIds, source_profile \in ProfileNames :
        LET c0 == load(<<>>, ensure_params(file)) IN
        /\ procs[p].pc = "ready"
        /\ procs' = [procs EXCEPT ![p] =
              IF Contains(c0, source_profile)
              THEN ProcAt("loaded", "set_default", source_profile, <<>>,
                          c0, <<>>, 0, file, "")
              ELSE ProcAt("done", "set_default", source_profile, <<>>,
                          c0, <<>>, 0, file, "noop")]
        /\ hist' = Append(hist, <<p, "load">>)
        /\ file' = ensure_params(file)
        /\ UNCHANGED <<bak, manager>>

\* shutil.copy: the source read, the .bak opened for writing
CopyOpen ==
    \E p \in ProcIds :
        LET buf == copy(file).lines IN
        /\ procs[p].pc = "loaded"
        /\ bak' = FileOf(<<>>)
        /\ procs' = [procs EXCEPT ![p].buf = buf, ![p].pos = 0,
                                  ![p].pc = IF buf = <<>> THEN "copied" ELSE "copying"]
        /\ UNCHANGED <<file, hist, manager>>

\* shutil.copy: lines of the source written to the .bak
CopyWrite ==
    \E p \in ProcIds :
        /\ procs[p].pc = "copying"
        /\ \E m \in ChunkEnds(procs[p].buf, procs[p].pos) :
            /\ m > procs[p].pos
            /\ bak' = FileOf(pwrite(bak.lines,
                                    Bytes(SubSeq(procs[p].buf, 1, procs[p].pos)),
                                    SubSeq(procs[p].buf, procs[p].pos + 1, m)))
            /\ procs' = [procs EXCEPT ![p].pos = m,
                    ![p].pc = IF m = Len(procs[p].buf) THEN "copied" ELSE "copying"]
        /\ UNCHANGED <<file, hist, manager>>

\* the section and its keys assigned in memory, as add_profile or
\* set_default does after the copy
assigned(pr) ==
    IF pr.op = "add_profile"
    THEN LET c1 == IF HasSection(pr.cfg, pr.name) THEN pr.cfg
                   ELSE add_section(pr.cfg, pr.name)
             s  == set_credentials(c1, pr.name, V_x, V_y, pr.tok)
         IN  [res |-> IF s.ok THEN "ok" ELSE "ValueError", cfg |-> s.cfg]
    ELSE LET c2 == clear_default(pr.cfg)
         IN  copy_keys(c2, OptsOf(c2, pr.name), OptsOf(c2, pr.name))

\* the assignments, then open(self.path, "w"): the file is truncated; an
\* assignment that raises ends the call before the open
OpenWrite ==
    \E p \in ProcIds :
        LET a == assigned(procs[p]) IN
        /\ procs[p].pc = "copied"
        /\ IF a.res = "ok"
           THEN /\ file' = FileOf(<<>>)
                /\ procs' = [procs EXCEPT ![p].cfg = a.cfg, ![p].pos = 0,
                                ![p].buf = WriteLines(a.cfg), ![p].pc = "writing"]
           ELSE /\ file' = file
                /\ procs' = [procs EXCEPT ![p].cfg = a.cfg, ![p].res = a.res,
                                          ![p].pc = "failed"]
        /\ UNCHANGED <<bak, hist, manager>>

\* self.config.write(f) and the close: lines of the store written to the
\* file; with the last of them the call has returned
WriteChunk ==
    \E p \in ProcIds :
        /\ procs[p].pc = "writing"
        /\ \E m \in ChunkEnds(procs[p].buf, procs[p].pos) :
            /\ m > procs[p].pos
            /\ file' = FileOf(pwrite(file.lines,
                                     Bytes(SubSeq(procs[p].buf, 1, procs[p].pos)),
                                     SubSeq(procs[p].buf, procs[p].pos + 1, m)))
            /\ IF m = Len(procs[p].buf)
               THEN /\ procs' = [procs EXCEPT ![p].pos = m, ![p].pc = "done",
                                              ![p].res = "ok"]
                    /\ hist' = Append(hist, <<p, "wrote">>)
               ELSE /\ procs' = [procs EXCEPT ![p].pos = m]
                    /\ hist' = hist
        /\ UNCHANGED <<bak, manager>>

\* the process is killed inside its call
Crash ==
    \E p \in ProcIds :
        /\ procs[p].pc \in {"loaded", "copying", "copied", "writing"}
        /\ procs' = [procs EXCEPT ![p].pc = "crashed", ![p].res = "killed"]
        /\ UNCHANGED <<file, bak, hist, manager>>

NextSteps ==
    \/ BeginAddProfile
    \/ BeginSetDefault
    \/ CopyOpen
    \/ CopyWrite
    \/ OpenWrite
    \/ WriteChunk
    \/ Crash

\* two processes, each making one call on the same path
InitRace ==
    /\ file \in InitFiles
    /\ bak = NoFile
    /\ config = <<>>
    /\ last = Constructed(file)
    /\ ops_left = 0
    /\ faults_left = 0
    /\ procs = [p \in ProcIds |-> ReadyProc]
    /\ hist = <<>>

SpecRace == InitRace /\ [][NextSteps]_vars

\* one process making one call, on a file nothing else touches; the .bak of
\* an earlier call may be there
InitAlone ==
    /\ file \in InitFiles
    /\ bak \in {NoFile} \cup InitFiles
    /\ config = <<>>
    /\ last = Constructed(file)
    /\ ops_left = 0
    /\ faults_left = 0
    /\ procs = [p \in ProcIds |-> IF p = 1 THEN ReadyProc ELSE OffProc]
    /\ hist = <<>>

SpecAlone == InitAlone /\ [][NextSteps]_vars

----------------------------------------------------------------------------
(* Vocabulary of the properties *)

\* the store a fresh parser reads from the file as it was before the last call
Before == Parsed(last.file0)

\* the store a fresh parser reads from the file now
Now == Parsed(file)

Mutators == {"add_profile", "set_default"}
Readers  == {"get_profiles", "get_profile_details"}

----------------------------------------------------------------------------
(* C1: after a successful set_default(S), S being a section of the store at
   the time of the call, the entries of "default" are exactly the entries S
   had then: same keys, same values, nothing left of the old "default". *)
C1_DefaultIsExactCopy ==
    (/\ last.op = "set_default"
     /\ last.res = "ok"
     /\ HasSection(Before, last.name))
    => OptsOf(Now, DefaultName) = OptsOf(Before, last.name)

(* C2: set_default(S) with no section S in the credentials file is a no-op:
   it returns without error, the file is what it was, and the backup is
   neither created nor overwritten. *)
C2_UnknownSourceNoOp ==
    (/\ last.op = "set_default"
     /\ ~HasSection(Before, last.name))
    => /\ last.res = "noop"
       /\ file = last.file0
       /\ bak = last.bak0

(* C3: add_profile with name "default" is rejected with a validation error
   and leaves the credentials file unchanged. *)
C3_DefaultNameRejected ==
    (/\ last.op = "add_profile"
     /\ last.name = DefaultName)
    => /\ last.res = "ValueError"
       /\ file = last.file0

(* C4: after add_profile(name, access_key, secret_key, session_token)
   completes, the file holds section name with aws_access_key_id =
   access_key and aws_secret_access_key = secret_key; a non-empty
   session_token is the section's aws_session_token and an empty one is
   never written as its value; every other key the section held in the file
   before the call, the old aws_session_token included when the new one is
   empty, still has the value it had. *)
C4_AddProfileMerges ==
    (/\ last.op = "add_profile"
     /\ last.res = "ok")
    => LET new == OptsOf(Now, last.name)
           old == OptsOf(Before, last.name)
           set == {KeyId, KeySecret} \cup (IF last.tok = Empty THEN {} ELSE {KeyToken})
       IN  /\ HasSection(Now, last.name)
           /\ HasOpt(new, KeyId) /\ OptValue(new, KeyId) = last.ak
           /\ HasOpt(new, KeySecret) /\ OptValue(new, KeySecret) = last.sk
           /\ last.tok # Empty =>
                 HasOpt(new, KeyToken) /\ OptValue(new, KeyToken) = last.tok
           /\ last.tok = Empty /\ ~HasOpt(old, KeyToken) =>
                 ~(HasOpt(new, KeyToken) /\ OptValue(new, KeyToken) = Empty)
           /\ \A i \in DOMAIN old :
                 old[i].k \notin set =>
                     HasOpt(new, old[i].k) /\ OptValue(new, old[i].k) = old[i].v

\* a call that overwrote a and kept its session token and its region
C4_Witness ==
    /\ last.op = "add_profile" /\ last.res = "ok" /\ last.tok = Empty
    /\ HasOpt(OptsOf(Before, last.name), KeyToken)
    /\ HasOpt(OptsOf(Before, last.name), KeyRegion)
    /\ OptValue(OptsOf(Before, last.name), KeyId) # last.ak
    /\ OptValue(OptsOf(Now, last.name), KeyId) = last.ak
    /\ OptValue(OptsOf(Now, last.name), KeyToken) = V_x

(* C5: get_profiles returns exactly the section names of the credentials
   file other than "default", in the order of the file, none twice. *)
C5_ListsFileSections ==
    last.op = "get_profiles" => last.ret = get_profiles(Before)

(* C6: get_profile_details(name) never fails and returns the entries of
   section name of the file, or an empty mapping when the file has no such
   section; the read operations change neither the file nor the backup. *)
C6_DetailsNeverFail ==
    /\ last.op = "get_profile_details" =>
          /\ last.res = "ok"
          /\ last.ret = OptsOf(Before, last.name)
    /\ last.op \in Readers => file = last.file0 /\ bak = last.bak0

(* C7: after an add_profile that reached its write, whether the write then
   succeeded or failed, and after a successful set_default, the backup
   holds the credentials file as it was just before the call, whatever the
   backup held earlier. *)
C7_BackupBeforeWrite ==
    (\/ last.op = "add_profile" /\ last.at \in {"open", "write", "done"}
     \/ last.op = "set_default" /\ last.res = "ok")
    => bak = FileOf(last.file0.lines)

\* a write that failed part-way, an earlier backup having been replaced
C7_Witness ==
    /\ last.op = "add_profile" /\ last.at = "write" /\ last.res = "OSError"
    /\ last.bak0.exists /\ last.bak0 # bak
    /\ file # last.file0
    /\ bak = FileOf(last.file0.lines)

(* C8: a failing add_profile or set_default leaves the credentials file
   with its complete content of before the call. *)
C8_FailureKeepsFile ==
    (/\ last.op \in Mutators
     /\ last.res \notin {"ok", "noop"})
    => file = last.file0

(* C9: every operation works on the store as it is on disk at the time of
   the call, nothing being carried over from earlier operations of the
   manager: the reads return no section and no key the file does not hold,
   set_default of a section the file does not hold leaves the file alone,
   and a completed write puts no section into the file that the file did
   not hold, the one the call is about apart. *)
C9_NothingCarriedOver ==
    /\ last.op = "get_profiles" =>
          \A i \in DOMAIN last.ret : HasSection(Before, last.ret[i])
    /\ last.op = "get_profile_details" /\ last.res = "ok" =>
          \A i \in DOMAIN last.ret : HasOpt(OptsOf(Before, last.name), last.ret[i].k)
    /\ (/\ last.op = "set_default"
        /\ last.name # DEFAULTSECT
        /\ ~HasSection(Before, last.name)) => file = last.file0
    /\ last.op \in Mutators /\ last.res = "ok" =>
          \A i \in DOMAIN Now :
              \/ HasSection(Before, Now[i].name)
              \/ Now[i].name = (IF last.op = "add_profile" THEN last.name ELSE DefaultName)

(* C10: add_profile called twice in a row with the same arguments leaves
   the file after the second call as it was after the first, and the backup
   holding what the first call wrote. *)
C10_AddProfileIdempotent ==
    (/\ last.op = "add_profile"
     /\ last.again
     /\ last.res = "ok")
    => /\ file = last.file0
       /\ bak = FileOf(last.file0.lines)

\* the second of two equal calls, after a first that changed the file
C10_Witness ==
    /\ last.op = "add_profile" /\ last.again /\ last.res = "ok"
    /\ file = last.file0
    /\ last.bak0.exists /\ last.bak0 # bak
    /\ last.tok # Empty

(* C11: from an empty credentials file, "default" changes only by a
   successful set_default, which leaves it with the entries the activated
   profile had at the moment of the call; every other call leaves "default"
   as it was: absent if it was absent, with the same entries otherwise.
   Hence whenever "default" exists it holds the entries of the profile
   activated last, as they were then. *)
C11_DefaultIsLastActivation ==
    /\ (last.op = "set_default" /\ last.res = "ok")
        => /\ HasSection(Now, DefaultName)
           /\ OptsOf(Now, DefaultName) = OptsOf(Before, last.name)
    /\ (last.op \in Mutators \cup Readers
            /\ ~(last.op = "set_default" /\ last.res = "ok"))
        => /\ HasSection(Now, DefaultName) = HasSection(Before, DefaultName)
           /\ OptsOf(Now, DefaultName) = OptsOf(Before, DefaultName)

(* C14: set_default("default"), made when the section "default" exists with
   entries E, leaves "default" in the file with exactly the entries E. *)
C14_ReactivatingAliasHarmless ==
    (/\ last.op = "set_default"
     /\ last.name = DefaultName
     /\ HasSection(Before, DefaultName))
    => /\ HasSection(Now, DefaultName)
       /\ OptsOf(Now, DefaultName) = OptsOf(Before, DefaultName)

(* C16: a successful add_profile(name, ...) leaves every section other than
   name, "default" included, with the entries and the relative order it had,
   and a new name comes after the sections there were; a successful
   set_default(S), S other than "default", leaves every section other than
   "default" with the entries and the relative order it had. *)
C16_OnlyTargetSectionChanges ==
    /\ (last.op = "add_profile" /\ last.res = "ok")
        => /\ remove_section(Now, last.name) = remove_section(Before, last.name)
           /\ ~HasSection(Before, last.name)
                => /\ Now # <<>>
                   /\ Now[Len(Now)].name = last.name
                   /\ SubSeq(Now, 1, Len(Now) - 1) = Before
    /\ (last.op = "set_default" /\ last.res = "ok" /\ last.name # DefaultName)
        => remove_section(Now, DefaultName) = remove_section(Before, DefaultName)

(* C13: once a manager is constructed the credentials file exists, and no
   call of the manager removes it; the constructor creates a missing file
   (and a missing parent directory) empty, so that get_profiles on it
   returns the empty list, and leaves an existing file as it is. *)
C13_ConstructionEnsuresFile ==
    /\ file.dir /\ file.exists
    /\ last.op = "init"
        => /\ last.file0.exists => file = last.file0
           /\ ~last.file0.exists
                => /\ file = FileOf(<<>>)
                   /\ get_profiles(load(config, file)) = <<>>

\* a manager constructed where neither the directory nor the file was
C13_Witness ==
    /\ last.op = "init"
    /\ ~last.file0.dir
    /\ file = FileOf(<<>>)

(* C15: one add_profile or set_default, started on an intact credentials
   file and killed at any step (during the backup copy, between the backup
   and the write, part-way through the write) or run to its end: at every
   moment the credentials file or the backup holds the complete content the
   file had when the call started. *)
C15_CrashKeepsACompleteCopy ==
    procs[1].pc # "ready"
    => \/ file = procs[1].file0
       \/ bak.exists /\ bak.lines = procs[1].file0.lines

\* killed part-way through the write: a nonempty file was truncated and
\* only the first lines of the new store are in it
C15_Witness ==
    /\ procs[1].pc = "crashed"
    /\ procs[1].file0.lines # <<>>
    /\ procs[1].pos > 0
    /\ file.lines = SubSeq(WriteLines(procs[1].cfg), 1, procs[1].pos)
    /\ file.lines # WriteLines(procs[1].cfg)
    /\ file # procs[1].file0

\* the process whose write was completed last, and the other one
LastWriter ==
    hist[CHOOSE i \in DOMAIN hist :
            /\ hist[i][2] = "wrote"
            /\ \A j \in DOMAIN hist : j > i => hist[j][2] # "wrote"][1]

Other(p) == CHOOSE q \in ProcIds : q # p

\* when process p did e
EventAt(p, e) == CHOOSE i \in DOMAIN hist : hist[i] = <<p, e>>

\* both processes have completed an add_profile, of two names that are
\* different and were not in the file either of them loaded
BothAdded ==
    /\ \A p \in ProcIds :
          /\ procs[p].pc = "done"
          /\ procs[p].op = "add_profile"
          /\ procs[p].res = "ok"
          /\ ~HasSection(Parsed(procs[p].file0), procs[p].name)
    /\ procs[1].name # procs[2].name

(* C12: two manager instances on one file each run one add_profile, of
   distinct new names, their steps interleaved in any order.  Once both have
   completed, the file is exactly the store of the instance whose write came
   last (the sections it loaded and its own profile, nothing of the other
   write mixed in), and the profile of the other instance is in the file
   only if the last writer loaded after the other's write. *)
C12_LastWriterWins ==
    BothAdded
    => /\ file.lines = WriteLines(procs[LastWriter].cfg)
       /\ (\E i \in DOMAIN file.lines :
                file.lines[i] = SectLine(procs[Other(LastWriter)].name))
           => EventAt(LastWriter, "load") > EventAt(Other(LastWriter), "wrote")

====
